---- MODULE Spec2Model ----
(***************************************************************************)
(* Model of agent.py: the three tool functions move_cartesian,             *)
(* rotate_joint and control_gripper, which record every command in two     *)
(* parallel logs (json_commands, python_commands) and keep the cumulative  *)
(* Cartesian position in arm_state, and the two writers write_json_file    *)
(* and write_python_file.                                                  *)
(*                                                                         *)
(* Text is a sequence of atoms.  A literal piece of an f-string or of a    *)
(* written line is one atom; text supplied by the caller (joint names,     *)
(* action names) and formatted numbers are one atom per character.         *)
(* A float is carried in fixed point, as an integer number of millionths.  *)
(***************************************************************************)
EXTENDS Integers, Sequences, FiniteSets, TLC

\* ------------------------------------------------------------------ bounds
MaxCalls == 3     \* tool calls made by the agent in one run
MaxExports == 2   \* calls of the two writers in one run

\* ----------------------------------------------------------------- inputs
\* (x, y, z) arguments the agent passes to move_cartesian, in millionths
MoveArgs == { <<0, 10000000, -5000000>>, <<-2500000, 0, 500000>> }

\* (joint_name, degrees) arguments the agent passes to rotate_joint; degrees
\* is a Python int
RotateArgs == { << <<"w", "a", "i", "s", "t">>, 180 >>, << <<"\n", "b", " ">>, -90 >> }

\* action names the agent passes to control_gripper
ActionArgs == { <<"c", "l", "o", "s", "e">>, <<"O", "p", "e", "n">> }

\* destinations of the writers: the default of each
JsonFilenames == { "generated_json_commands.json" }
PythonFilenames == { "generated_python_commands.py" }

\* ------------------------------------------------------------ number model
FracDigits == 6                \* decimals carried for a float
Scale == 10 ^ FracDigits       \* the float 1.0
PiMicro == 3141592             \* math.pi, in millionths

Abs(n) == IF n < 0 THEN -n ELSE n

Digits == <<"0", "1", "2", "3", "4", "5", "6", "7", "8", "9">>

\* str() of a natural number, one atom per digit
RECURSIVE NatStr(_)
NatStr(n) == IF n < 10 THEN <<Digits[n + 1]>>
             ELSE NatStr(n \div 10) \o <<Digits[(n % 10) + 1]>>

\* str() of a Python int
IntStr(n) == IF n < 0 THEN <<"-">> \o NatStr(-n) ELSE NatStr(n)

\* f written with exactly w digits
RECURSIVE PadStr(_, _)
PadStr(f, w) == IF w = 0 THEN << >>
                ELSE PadStr(f \div 10, w - 1) \o <<Digits[(f % 10) + 1]>>

\* drop trailing zeros, keeping at least one digit
RECURSIVE StripZeros(_)
StripZeros(s) == IF Len(s) > 1 /\ s[Len(s)] = "0"
                 THEN StripZeros(SubSeq(s, 1, Len(s) - 1))
                 ELSE s

\* repr() of a float, as str.format and json.dump write it: 5.0, -1.570796
FloatStr(v) == (IF v < 0 THEN <<"-">> ELSE << >>) \o NatStr(Abs(v) \div Scale)
               \o <<".">> \o StripZeros(PadStr(Abs(v) % Scale, FracDigits))

\* math.radians(degrees): degrees * pi / 180, rounded toward zero to the
\* carried precision
\* (variant: the degree value passed on unconverted)
radians_nocvt(degrees) == degrees * Scale
Radians(degrees) == IF degrees < 0 THEN -((-degrees * PiMicro) \div 180)
                    ELSE (degrees * PiMicro) \div 180

\* -------------------------------------------------------------- text model
UpperCase == <<"A", "B", "C", "D", "E", "F", "G", "H", "I", "J", "K", "L", "M",
               "N", "O", "P", "Q", "R", "S", "T", "U", "V", "W", "X", "Y", "Z">>
LowerCase == <<"a", "b", "c", "d", "e", "f", "g", "h", "i", "j", "k", "l", "m",
               "n", "o", "p", "q", "r", "s", "t", "u", "v", "w", "x", "y", "z">>

LowerChar(c) == IF \E i \in 1..26 : UpperCase[i] = c
                THEN LowerCase[CHOOSE i \in 1..26 : UpperCase[i] = c]
                ELSE c

\* str.lower()
Lower(s) == [i \in 1..Len(s) |-> LowerChar(s[i])]

Whitespace == { " ", "\t", "\n", "\r" }

\* str.strip(): drop leading and trailing whitespace
RECURSIVE LStrip(_)
LStrip(s) == IF s # << >> /\ Head(s) \in Whitespace THEN LStrip(Tail(s)) ELSE s
RECURSIVE RStrip(_)
RStrip(s) == IF s # << >> /\ s[Len(s)] \in Whitespace
             THEN RStrip(SubSeq(s, 1, Len(s) - 1)) ELSE s
IsNotWhitespace(c) == c \notin Whitespace
\* (variant: white space removed everywhere)
strip_all(s) == SelectSeq(s, IsNotWhitespace)
Strip(s) == LStrip(RStrip(s))

\* ------------------------------------------------------------------- state
VARIABLES
    arm_state,        \* the robot's position in Cartesian space
    json_commands,    \* Unity-compatible JSON commands (records)
    python_commands,  \* raw Python commands (text)
    fs,               \* the files written so far: filename -> content
    calls,            \* log of the tool calls made, in call order
    exports,          \* log of the files written, in call order
    pc                \* the statement of the script that runs next

vars == <<arm_state, json_commands, python_commands, fs, calls, exports, pc>>

Init ==
    /\ arm_state = [x |-> 0, y |-> 0, z |-> 0]
    /\ json_commands = << >>
    /\ python_commands = << >>
    /\ fs = [f \in {} |-> << >>]
    /\ calls = << >>
    /\ exports = << >>
    /\ pc = "stream_chat"

\* ------------------------------------------------------------ move_cartesian
\* arm_state after  arm_state[k] += delta  on the three axes
\* (variant: assignment instead of +=)
move_state_assign(st, x, y, z) == [x |-> x, y |-> y, z |-> z]
MoveState(st, x, y, z) == [x |-> st.x + x, y |-> st.y + y, z |-> st.z + z]

\* the JSON-friendly version of the command
MoveRecord(st) == [type |-> "cartesian_move", x |-> st.x, y |-> st.y, z |-> st.z]

\* the Python-friendly version of the command
\* (variant: y and z exchanged in the f-string)
move_line_swapped(st) == <<"bot.arm.set_ee_cartesian_trajectory(x=">> \o FloatStr(st.x)
                         \o <<", y=">> \o FloatStr(st.z)
                         \o <<", z=">> \o FloatStr(st.y) \o <<")">>
MoveLine(st) == <<"bot.arm.set_ee_cartesian_trajectory(x=">> \o FloatStr(st.x)
                \o <<", y=">> \o FloatStr(st.y)
                \o <<", z=">> \o FloatStr(st.z) \o <<")">>

\* one call move_cartesian(x, y, z)
\* (variant: the record is the live arm_state object, so every move record
\* in the log shows the current position)
move_cartesian_alias(x, y, z) ==
    /\ LET st == MoveState(arm_state, x, y, z) IN
         /\ arm_state' = st
         /\ json_commands' =
              Append([i \in DOMAIN json_commands |->
                         IF json_commands[i].type = "cartesian_move"
                         THEN MoveRecord(st) ELSE json_commands[i]],
                     MoveRecord(st))
         /\ python_commands' = Append(python_commands, MoveLine(st))
    /\ calls' = Append(calls, [op |-> "move_cartesian", x |-> x, y |-> y, z |-> z])
    /\ UNCHANGED <<fs, exports>>
MoveCartesian(x, y, z) ==
    /\ LET st == MoveState(arm_state, x, y, z) IN
         /\ arm_state' = st
         /\ json_commands' = Append(json_commands, MoveRecord(st))
         /\ python_commands' = Append(python_commands, MoveLine(st))
    /\ calls' = Append(calls, [op |-> "move_cartesian", x |-> x, y |-> y, z |-> z])
    /\ UNCHANGED <<fs, exports>>

move_cartesian ==
    \E a \in MoveArgs :
        /\ Len(calls) < MaxCalls
        /\ MoveCartesian(a[1], a[2], a[3])
        /\ UNCHANGED pc

\* -------------------------------------------------------------- rotate_joint
RotateRecord(joint_name, degrees) ==
    [type |-> "rotate_joint", joint_name |-> joint_name, degrees |-> degrees]

RotateLine(joint_name, rad) ==
    <<"bot.arm.set_single_joint_position(joint_name='">> \o joint_name
    \o <<"', position=">> \o FloatStr(rad) \o <<")">>

\* one call rotate_joint(joint_name, degrees)
RotateJoint(joint_name, degrees) ==
    /\ LET rad == Radians(degrees) IN
         /\ json_commands' = Append(json_commands, RotateRecord(joint_name, degrees))
         /\ python_commands' = Append(python_commands, RotateLine(joint_name, rad))
    /\ calls' = Append(calls, [op |-> "rotate_joint",
                               joint_name |-> joint_name, degrees |-> degrees])
    /\ UNCHANGED <<arm_state, fs, exports>>

\* (variant: the Python command inserted at the front of its log)
rotate_joint_prepend ==
    \E a \in RotateArgs : LET joint_name == a[1]  degrees == a[2] IN
        /\ Len(calls) < MaxCalls
        /\ LET rad == Radians(degrees) IN
             /\ json_commands' = Append(json_commands, RotateRecord(joint_name, degrees))
             /\ python_commands' = <<RotateLine(joint_name, rad)>> \o python_commands
        /\ calls' = Append(calls, [op |-> "rotate_joint",
                                   joint_name |-> joint_name, degrees |-> degrees])
        /\ UNCHANGED <<arm_state, fs, exports, pc>>
rotate_joint ==
    \E a \in RotateArgs :
        /\ Len(calls) < MaxCalls
        /\ RotateJoint(a[1], a[2])
        /\ UNCHANGED pc

\* ----------------------------------------------------------- control_gripper
\* (variant: the action recorded as supplied)
gripper_record_raw(action) == [type |-> "gripper", action |-> action]
GripperRecord(action) == [type |-> "gripper", action |-> Lower(action)]

\* (variant: the normalized name in the line too)
gripper_line_lower(action) == <<"bot.gripper.">> \o Lower(action) \o <<"()">>
GripperLine(action) == <<"bot.gripper.">> \o action \o <<"()">>

\* one call control_gripper(action)
ControlGripper(action) ==
    /\ json_commands' = Append(json_commands, GripperRecord(action))
    /\ python_commands' = Append(python_commands, GripperLine(action))
    /\ calls' = Append(calls, [op |-> "control_gripper", action |-> action])
    /\ UNCHANGED <<arm_state, fs, exports>>

\* (variant: the Python command not recorded)
control_gripper_nopy ==
    \E action \in ActionArgs :
        /\ Len(calls) < MaxCalls
        /\ json_commands' = Append(json_commands, GripperRecord(action))
        /\ calls' = Append(calls, [op |-> "control_gripper", action |-> action])
        /\ UNCHANGED <<arm_state, python_commands, fs, exports, pc>>
control_gripper ==
    \E action \in ActionArgs :
        /\ Len(calls) < MaxCalls
        /\ ControlGripper(action)
        /\ UNCHANGED pc

\* ------------------------------------------------------------------ writers
\* open(filename, "w"): the content the file starts with, before any write
\* (variant: mode "a")
OpenAppend(fsys, filename) == IF filename \in DOMAIN fsys THEN fsys[filename] ELSE << >>
OpenTruncate(fsys, filename) == << >>

\* the file system after filename has been closed with the given content
\* (variant: every other file is lost)
close_only(fsys, filename, content) == [f \in {filename} |-> content]
Close(fsys, filename, content) ==
    [f \in (DOMAIN fsys) \cup {filename} |-> IF f = filename THEN content ELSE fsys[f]]

\* json.dump of one character inside a string
JsonChar(c) == CASE c = "\n" -> <<"\\", "n">>
                 [] c = "\t" -> <<"\\", "t">>
                 [] c = "\r" -> <<"\\", "r">>
                 [] c = "\"" -> <<"\\", "\"">>
                 [] c = "\\" -> <<"\\", "\\">>
                 [] OTHER -> <<c>>

\* json.dump of a str
RECURSIVE JsonChars(_)
JsonChars(s) == IF s = << >> THEN << >> ELSE JsonChar(Head(s)) \o JsonChars(Tail(s))
JsonString(s) == <<"\"">> \o JsonChars(s) \o <<"\"">>

\* json.dump of one command at indent level 1 of indent=2
JsonObject(cmd) ==
    CASE cmd.type = "cartesian_move" ->
           <<"  {", "\n", "    \"type\": \"cartesian_move\",", "\n", "    \"x\": ">>
           \o FloatStr(cmd.x) \o <<",", "\n", "    \"y\": ">>
           \o FloatStr(cmd.y) \o <<",", "\n", "    \"z\": ">>
           \o FloatStr(cmd.z) \o <<"\n", "  }">>
      [] cmd.type = "rotate_joint" ->
           <<"  {", "\n", "    \"type\": \"rotate_joint\",", "\n", "    \"joint_name\": ">>
           \o JsonString(cmd.joint_name) \o <<",", "\n", "    \"degrees\": ">>
           \o IntStr(cmd.degrees) \o <<"\n", "  }">>
      [] cmd.type = "gripper" ->
           <<"  {", "\n", "    \"type\": \"gripper\",", "\n", "    \"action\": ">>
           \o JsonString(cmd.action) \o <<"\n", "  }">>

RECURSIVE JsonObjects(_)
JsonObjects(cmds) ==
    IF Len(cmds) = 1 THEN JsonObject(cmds[1])
    ELSE JsonObject(Head(cmds)) \o <<",", "\n">> \o JsonObjects(Tail(cmds))

\* json.dump(json_commands, f, indent=2)
JsonDump(cmds) == IF cmds = << >> THEN <<"[]">>
                  ELSE <<"[", "\n">> \o JsonObjects(cmds) \o <<"\n", "]">>

\* one call write_json_file(filename)
WriteJsonFile(filename) ==
    /\ LET content == OpenTruncate(fs, filename) \o JsonDump(json_commands) IN
         /\ fs' = Close(fs, filename, content)
         /\ exports' = Append(exports, [fn |-> "write_json_file",
                                        filename |-> filename,
                                        ncalls |-> Len(calls),
                                        content |-> content])
    /\ UNCHANGED <<arm_state, json_commands, python_commands, calls>>

write_json_file ==
    \E filename \in JsonFilenames :
        /\ Len(exports) < MaxExports
        /\ WriteJsonFile(filename)
        /\ UNCHANGED pc

\* the seven f.write calls before the loop
Preamble ==
    << "from interbotix_xs_modules.arm import InterbotixManipulatorXS", "\n", "\n",
       "bot = InterbotixManipulatorXS(", "\n",
       "    robot_model='vx300',", "\n",
       "    group_name='arm',", "\n",
       "    gripper_name='gripper'", "\n",
       ")", "\n", "\n" >>

\* for command in python_commands: f.write(f"{command.strip()}\n")
RECURSIVE CommandLines(_)
CommandLines(cmds) ==
    IF cmds = << >> THEN << >>
    ELSE Strip(Head(cmds)) \o <<"\n">> \o CommandLines(Tail(cmds))

\* one call write_python_file(filename)
WritePythonFile(filename) ==
    /\ LET content == OpenTruncate(fs, filename) \o Preamble
                      \o CommandLines(python_commands) IN
         /\ fs' = Close(fs, filename, content)
         /\ exports' = Append(exports, [fn |-> "write_python_file",
                                        filename |-> filename,
                                        ncalls |-> Len(calls),
                                        content |-> content])
    /\ UNCHANGED <<arm_state, json_commands, python_commands, calls>>

\* (variant: the position set back to the origin once the script is written)
write_python_file_reset ==
    \E filename \in PythonFilenames :
        /\ Len(exports) < MaxExports
        /\ LET content == OpenTruncate(fs, filename) \o Preamble
                          \o CommandLines(python_commands) IN
             /\ fs' = Close(fs, filename, content)
             /\ exports' = Append(exports, [fn |-> "write_python_file",
                                            filename |-> filename,
                                            ncalls |-> Len(calls),
                                            content |-> content])
        /\ arm_state' = [x |-> 0, y |-> 0, z |-> 0]
        /\ UNCHANGED <<json_commands, python_commands, calls, pc>>
write_python_file ==
    \E filename \in PythonFilenames :
        /\ Len(exports) < MaxExports
        /\ WritePythonFile(filename)
        /\ UNCHANGED pc

\* ----------------------------------------------------------- specification
Next ==
    \/ move_cartesian
    \/ rotate_joint
    \/ control_gripper
    \/ write_json_file
    \/ write_python_file

Spec == Init /\ [][Next]_vars

\* ------------------------------------------------- the example of user_input
\* the tool calls user_input asks for, with the keyword arguments each is
\* given: up 5, forward 10, down 5, close, up 5, rotate base 180, open
Scenario ==
    << [op |-> "move_cartesian", kw |-> [z |-> 5 * Scale]],
       [op |-> "move_cartesian", kw |-> [y |-> 10 * Scale]],
       [op |-> "move_cartesian", kw |-> [z |-> -5 * Scale]],
       [op |-> "control_gripper", action |-> <<"c", "l", "o", "s", "e">>],
       [op |-> "move_cartesian", kw |-> [z |-> 5 * Scale]],
       [op |-> "rotate_joint", joint_name |-> <<"w", "a", "i", "s", "t">>, degrees |-> 180],
       [op |-> "control_gripper", action |-> <<"O", "p", "e", "n">>] >>

\* the value of parameter k of move_cartesian: the keyword argument, or the
\* default 0.0
KwArg(kw, k) == IF k \in DOMAIN kw THEN kw[k] ELSE 0

\* the agent makes the next call of the example
scenario_call ==
    /\ Len(calls) < Len(Scenario)
    /\ LET c == Scenario[Len(calls) + 1] IN
         CASE c.op = "move_cartesian" ->
                MoveCartesian(KwArg(c.kw, "x"), KwArg(c.kw, "y"), KwArg(c.kw, "z"))
           [] c.op = "rotate_joint" -> RotateJoint(c.joint_name, c.degrees)
           [] c.op = "control_gripper" -> ControlGripper(c.action)
    /\ UNCHANGED pc

ScenarioNext ==
    \/ scenario_call
    \/ write_json_file
    \/ write_python_file

SpecScenario == Init /\ [][ScenarioNext]_vars

\* ------------------------------------------------------------ the script
\* agent.stream_chat(user_input, ...): the agent calls one of its tools
\* (variant: a tool is called from a thread that outlives stream_chat)
agent_tool_call_late ==
    \/ move_cartesian
    \/ rotate_joint
    \/ control_gripper
agent_tool_call ==
    /\ pc = "stream_chat"
    /\ \/ move_cartesian
       \/ rotate_joint
       \/ control_gripper

\* stream_chat returns and the three prints run
agent_returns ==
    /\ pc = "stream_chat"
    /\ pc' = "write_json_file"
    /\ UNCHANGED <<arm_state, json_commands, python_commands, fs, calls, exports>>

\* write_json_file()
script_write_json ==
    /\ pc = "write_json_file"
    /\ \E filename \in JsonFilenames : WriteJsonFile(filename)
    /\ pc' = "write_python_file"

\* write_python_file()
script_write_python ==
    /\ pc = "write_python_file"
    /\ \E filename \in PythonFilenames : WritePythonFile(filename)
    /\ pc' = "done"

ScriptNext ==
    \/ agent_tool_call
    \/ agent_returns
    \/ script_write_json
    \/ script_write_python

SpecScript == Init /\ [][ScriptNext]_vars

\* ------------------------------------------------- reading the logs back
IsMove(c) == c.op = "move_cartesian"
IsMoveRecord(r) == r.type = "cartesian_move"

\* the delta a call adds on axis k ("x", "y" or "z"); only moves add one
DeltaOf(c, k) == IF ~IsMove(c) THEN 0
                 ELSE CASE k = "x" -> c.x [] k = "y" -> c.y [] k = "z" -> c.z

\* the sum on axis k of the deltas of the first n elements of cs
RECURSIVE DeltaSum(_, _, _)
DeltaSum(cs, n, k) == IF n = 0 THEN 0 ELSE DeltaSum(cs, n - 1, k) + DeltaOf(cs[n], k)

\* the atoms of line strictly between the first atom `open` and the next
\* atom `close` after it
Between(line, open, close) ==
    LET a == CHOOSE i \in 1..Len(line) :
                 line[i] = open /\ \A j \in 1..(i - 1) : line[j] # open
        b == CHOOSE i \in (a + 1)..Len(line) :
                 line[i] = close /\ \A j \in (a + 1)..(i - 1) : line[j] # close
    IN SubSeq(line, a + 1, b - 1)

HasBetween(line, open, close) ==
    \E a \in 1..Len(line) : \E b \in (a + 1)..Len(line) :
        line[a] = open /\ line[b] = close

DigitVal(c) == CHOOSE d \in 0..9 : Digits[d + 1] = c

RECURSIVE ParseNat(_)
ParseNat(s) == IF s = << >> THEN 0
               ELSE 10 * ParseNat(SubSeq(s, 1, Len(s) - 1)) + DigitVal(s[Len(s)])

\* the float a decimal text denotes, in millionths
ParseFloat(s) ==
    LET neg == s # << >> /\ Head(s) = "-"
        t == IF neg THEN Tail(s) ELSE s
        dot == CHOOSE i \in 1..Len(t) : t[i] = "."
        whole == SubSeq(t, 1, dot - 1)
        frac == SubSeq(t, dot + 1, Len(t))
        mag == ParseNat(whole) * Scale + ParseNat(frac) * 10 ^ (FracDigits - Len(frac))
    IN IF neg THEN -mag ELSE mag

\* t is s with every upper-case letter replaced by its lower-case letter
IsLowerOf(t, s) ==
    /\ Len(t) = Len(s)
    /\ \A i \in 1..Len(s) :
         /\ \A u \in 1..26 : t[i] # UpperCase[u]
         /\ \/ t[i] = s[i]
            \/ \E u \in 1..26 : s[i] = UpperCase[u] /\ t[i] = LowerCase[u]

\* ------------------------------------------------------------------ claims

\* C1: the i-th cartesian_move record holds the component-wise sum of the
\* deltas of move calls 1..i (calls of the other tools add nothing), and
\* arm_state is the sum of all move deltas applied so far.
C1_CumulativePosition ==
    LET moves == SelectSeq(calls, IsMove)
        recs == SelectSeq(json_commands, IsMoveRecord)
    IN /\ Len(recs) = Len(moves)
       /\ \A i \in 1..Len(moves) :
            /\ recs[i].x = DeltaSum(moves, i, "x")
            /\ recs[i].y = DeltaSum(moves, i, "y")
            /\ recs[i].z = DeltaSum(moves, i, "z")
       /\ arm_state = [x |-> DeltaSum(calls, Len(calls), "x"),
                       y |-> DeltaSum(calls, Len(calls), "y"),
                       z |-> DeltaSum(calls, Len(calls), "z")]

\* two moves with another tool call in between, the second move changing an
\* axis the first one had already moved
C1_Witness ==
    /\ Len(calls) = 3
    /\ IsMove(calls[1]) /\ ~IsMove(calls[2]) /\ IsMove(calls[3])
    /\ calls[1].z # 0 /\ calls[3].z # 0
    /\ arm_state.z = calls[1].z + calls[3].z
    /\ arm_state.z # calls[3].z

\* C2: every tool call appends exactly one element to each log, so both
\* logs are as long as the number of tool calls completed.
C2_LogsGrowTogether ==
    /\ Len(json_commands) = Len(calls)
    /\ Len(python_commands) = Len(calls)

\* one call of each of the three tools has completed
C2_Witness ==
    /\ Len(calls) = 3
    /\ {calls[i].op : i \in 1..3} = {"move_cartesian", "rotate_joint", "control_gripper"}
    /\ Len(json_commands) = 3 /\ Len(python_commands) = 3

\* C3: the executable line of a gripper call invokes the normalized
\* (lower-cased) action name, the one its structured record holds, as a
\* zero-argument invocation.
C3_GripperLineNormalized ==
    \A i \in DOMAIN json_commands :
        json_commands[i].type = "gripper" =>
            /\ i \in DOMAIN python_commands
            /\ python_commands[i] = <<"bot.gripper.">> \o json_commands[i].action \o <<"()">>

\* C4: a gripper call appends a record of type gripper whose action is the
\* lower-cased input, and the line bot.gripper.<action>() with the casing
\* the caller supplied.
C4_GripperCasing ==
    \A i \in DOMAIN calls :
        calls[i].op = "control_gripper" =>
            /\ i \in DOMAIN json_commands /\ i \in DOMAIN python_commands
            /\ json_commands[i].type = "gripper"
            /\ IsLowerOf(json_commands[i].action, calls[i].action)
            /\ python_commands[i] = <<"bot.gripper.">> \o calls[i].action \o <<"()">>

\* a gripper call whose action has an upper-case letter has completed
C4_Witness ==
    \E i \in DOMAIN calls :
        /\ calls[i].op = "control_gripper"
        /\ \E k \in DOMAIN calls[i].action : \E u \in 1..26 : calls[i].action[k] = UpperCase[u]
        /\ i \in DOMAIN json_commands
        /\ json_commands[i].action # calls[i].action

\* C5: a rotate_joint(joint_name, d) call appends a record holding
\* joint_name and the degree value d unchanged, and a line holding the same
\* joint_name and the position d * pi / 180, to the carried precision.
C5_DegreesAndRadians ==
    \A i \in DOMAIN calls :
        calls[i].op = "rotate_joint" =>
            /\ i \in DOMAIN json_commands /\ i \in DOMAIN python_commands
            /\ json_commands[i] = [type |-> "rotate_joint",
                                   joint_name |-> calls[i].joint_name,
                                   degrees |-> calls[i].degrees]
            /\ Head(python_commands[i]) = "bot.arm.set_single_joint_position(joint_name='"
            /\ HasBetween(python_commands[i], "', position=", ")")
            /\ Between(python_commands[i],
                       "bot.arm.set_single_joint_position(joint_name='",
                       "', position=") = calls[i].joint_name
            /\ LET p == ParseFloat(Between(python_commands[i], "', position=", ")"))
               IN Abs(p - ((calls[i].degrees * PiMicro) \div 180)) <= 1

\* a rotation by a non-zero angle has completed, and its line holds a
\* position that is not the degree value
C5_Witness ==
    \E i \in DOMAIN calls :
        /\ calls[i].op = "rotate_joint"
        /\ calls[i].degrees < 0
        /\ i \in DOMAIN python_commands
        /\ HasBetween(python_commands[i], "', position=", ")")
        /\ ParseFloat(Between(python_commands[i], "', position=", ")"))
             # calls[i].degrees * Scale

\* C6: every step that changes arm_state is a move_cartesian call, which
\* adds its deltas to the position; rotate_joint, control_gripper and the
\* two writers leave x, y and z as they are.
C6_OnlyMovesChangeArmState ==
    [][arm_state' # arm_state =>
          /\ Len(calls') = Len(calls) + 1
          /\ exports' = exports
          /\ IsMove(calls'[Len(calls')])
          /\ arm_state'.x = arm_state.x + calls'[Len(calls')].x
          /\ arm_state'.y = arm_state.y + calls'[Len(calls')].y
          /\ arm_state'.z = arm_state.z + calls'[Len(calls')].z]_vars

\* away from the origin after a move, with a rotation, a gripper action and
\* both writers having run since
C6_Witness ==
    /\ Len(calls) = 3 /\ Len(exports) = 2
    /\ IsMove(calls[1])
    /\ calls[2].op = "rotate_joint" /\ calls[3].op = "control_gripper"
    /\ exports[1].ncalls >= 1 /\ exports[2].ncalls >= 1
    /\ exports[1].fn # exports[2].fn
    /\ arm_state = [x |-> calls[1].x, y |-> calls[1].y, z |-> calls[1].z]
    /\ arm_state # [x |-> 0, y |-> 0, z |-> 0]

\* C7: json_commands follows the order of the calls, and the record and
\* the line at one index come from the same call and are of the same kind.
C7_SameCallSameKind ==
    /\ DOMAIN json_commands = DOMAIN calls
    /\ DOMAIN python_commands = DOMAIN calls
    /\ \A i \in DOMAIN calls :
         CASE calls[i].op = "move_cartesian" ->
                /\ json_commands[i].type = "cartesian_move"
                /\ Head(python_commands[i]) = "bot.arm.set_ee_cartesian_trajectory(x="
                /\ json_commands[i].x = DeltaSum(calls, i, "x")
                /\ json_commands[i].y = DeltaSum(calls, i, "y")
                /\ json_commands[i].z = DeltaSum(calls, i, "z")
           [] calls[i].op = "rotate_joint" ->
                /\ json_commands[i].type = "rotate_joint"
                /\ Head(python_commands[i]) = "bot.arm.set_single_joint_position(joint_name='"
                /\ json_commands[i].joint_name = calls[i].joint_name
                /\ json_commands[i].degrees = calls[i].degrees
                /\ Between(python_commands[i],
                           "bot.arm.set_single_joint_position(joint_name='",
                           "', position=") = calls[i].joint_name
           [] calls[i].op = "control_gripper" ->
                /\ json_commands[i].type = "gripper"
                /\ Head(python_commands[i]) = "bot.gripper."
                /\ IsLowerOf(json_commands[i].action, calls[i].action)
                /\ SubSeq(python_commands[i], 2, Len(python_commands[i]) - 1)
                     = calls[i].action

\* three calls of three different tools, the rotation last
C7_Witness ==
    /\ Len(calls) = 3 /\ Len(json_commands) = 3 /\ Len(python_commands) = 3
    /\ calls[1].op = "control_gripper"
    /\ calls[2].op = "move_cartesian"
    /\ calls[3].op = "rotate_joint"
    /\ json_commands[3].type = "rotate_joint"

\* C8: the x, y, z arguments of the line of a move are the absolute
\* cumulative position held by the cartesian_move record at the same index.
C8_LineHoldsAbsolutePosition ==
    \A i \in DOMAIN json_commands :
        json_commands[i].type = "cartesian_move" =>
            /\ i \in DOMAIN python_commands
            /\ Head(python_commands[i]) = "bot.arm.set_ee_cartesian_trajectory(x="
            /\ HasBetween(python_commands[i], ", y=", ", z=")
            /\ python_commands[i][Len(python_commands[i])] = ")"
            /\ ParseFloat(Between(python_commands[i],
                   "bot.arm.set_ee_cartesian_trajectory(x=", ", y=")) = json_commands[i].x
            /\ ParseFloat(Between(python_commands[i], ", y=", ", z=")) = json_commands[i].y
            /\ ParseFloat(Between(python_commands[i], ", z=", ")")) = json_commands[i].z

\* a second move whose record differs from its own deltas
C8_Witness ==
    /\ Len(calls) >= 2 /\ Len(json_commands) >= 2 /\ Len(python_commands) >= 2
    /\ IsMove(calls[1]) /\ IsMove(calls[2])
    /\ json_commands[2].y # calls[2].y
    /\ json_commands[2].y # json_commands[2].z
    /\ json_commands[2].z < 0

\* the text split at its line breaks: one element per terminated line
RECURSIVE Lines(_)
Lines(text) ==
    IF \A i \in 1..Len(text) : text[i] # "\n" THEN << >>
    ELSE LET n == CHOOSE i \in 1..Len(text) :
                      text[i] = "\n" /\ \A j \in 1..(i - 1) : text[j] # "\n"
         IN <<SubSeq(text, 1, n - 1)>> \o Lines(SubSeq(text, n + 1, Len(text)))

IsPrefix(p, s) == Len(p) <= Len(s) /\ SubSeq(s, 1, Len(p)) = p

\* C9: two calls of the same writer with the same destination and no tool
\* call in between leave the same content in the file; the second one
\* overwrites what the first one wrote.
C9_ExportIdempotent ==
    /\ \A i \in DOMAIN exports : \A j \in DOMAIN exports :
         ( /\ i < j
           /\ exports[i].fn = exports[j].fn
           /\ exports[i].filename = exports[j].filename
           /\ exports[i].ncalls = exports[j].ncalls )
         => exports[j].content = exports[i].content
    /\ exports # << >> =>
         /\ exports[Len(exports)].filename \in DOMAIN fs
         /\ fs[exports[Len(exports)].filename] = exports[Len(exports)].content

\* the same writer has written the same destination twice after the same
\* non-empty run of tool calls
C9_Witness ==
    /\ Len(exports) >= 2
    /\ exports[1].fn = exports[2].fn
    /\ exports[1].filename = exports[2].filename
    /\ exports[1].ncalls = exports[2].ncalls
    /\ exports[1].ncalls >= 1
    /\ fs[exports[2].filename] = exports[1].content

\* C10: the file write_python_file writes is the fixed preamble followed by
\* exactly one line per recorded command, in recording order, whatever
\* joint name or action text was supplied; with no tool call the JSON file
\* is the empty list and the script is the preamble alone.
C10_OneLinePerCommand ==
    \A k \in DOMAIN exports :
        /\ exports[k].fn = "write_python_file" =>
             /\ IsPrefix(Preamble, exports[k].content)
             /\ LET body == SubSeq(exports[k].content, Len(Preamble) + 1,
                                   Len(exports[k].content))
                IN /\ Len(Lines(body)) = exports[k].ncalls
                   /\ \A i \in 1..exports[k].ncalls :
                        i \in DOMAIN Lines(body) => Lines(body)[i] = python_commands[i]
             /\ exports[k].ncalls = 0 => exports[k].content = Preamble
        /\ exports[k].fn = "write_json_file" =>
             (exports[k].ncalls = 0 => exports[k].content = <<"[]">>)

\* C11: the seven calls of the example yield seven records with positions
\* (0,0,5), (0,10,5), (0,10,0), gripper close, (0,10,5), waist 180 degrees,
\* gripper open, and seven lines with the same absolute coordinates, the
\* radian value of 180 degrees and the invocations close() and Open(); an
\* axis a move call does not name keeps its value.
C11_Scenario ==
    Len(calls) = 7 =>
        /\ json_commands =
             << [type |-> "cartesian_move", x |-> 0, y |-> 0, z |-> 5000000],
                [type |-> "cartesian_move", x |-> 0, y |-> 10000000, z |-> 5000000],
                [type |-> "cartesian_move", x |-> 0, y |-> 10000000, z |-> 0],
                [type |-> "gripper", action |-> <<"c", "l", "o", "s", "e">>],
                [type |-> "cartesian_move", x |-> 0, y |-> 10000000, z |-> 5000000],
                [type |-> "rotate_joint", joint_name |-> <<"w", "a", "i", "s", "t">>,
                 degrees |-> 180],
                [type |-> "gripper", action |-> <<"o", "p", "e", "n">>] >>
        /\ python_commands =
             << <<"bot.arm.set_ee_cartesian_trajectory(x=", "0", ".", "0",
                  ", y=", "0", ".", "0", ", z=", "5", ".", "0", ")">>,
                <<"bot.arm.set_ee_cartesian_trajectory(x=", "0", ".", "0",
                  ", y=", "1", "0", ".", "0", ", z=", "5", ".", "0", ")">>,
                <<"bot.arm.set_ee_cartesian_trajectory(x=", "0", ".", "0",
                  ", y=", "1", "0", ".", "0", ", z=", "0", ".", "0", ")">>,
                <<"bot.gripper.", "c", "l", "o", "s", "e", "()">>,
                <<"bot.arm.set_ee_cartesian_trajectory(x=", "0", ".", "0",
                  ", y=", "1", "0", ".", "0", ", z=", "5", ".", "0", ")">>,
                <<"bot.arm.set_single_joint_position(joint_name='", "w", "a", "i", "s", "t",
                  "', position=", "3", ".", "1", "4", "1", "5", "9", "2", ")">>,
                <<"bot.gripper.", "O", "p", "e", "n", "()">> >>

\* the seven calls of the example have been made, in its order
C11_Witness ==
    /\ Len(calls) = 7
    /\ \A i \in 1..7 : calls[i].op = Scenario[i].op
    /\ calls[2] = [op |-> "move_cartesian", x |-> 0, y |-> 10000000, z |-> 0]
    /\ calls[7].action = <<"O", "p", "e", "n">>
    /\ arm_state = [x |-> 0, y |-> 10000000, z |-> 5000000]
    /\ Len(json_commands) = 7 /\ Len(python_commands) = 7

\* every command followed by a line break, one after the other
RECURSIVE EachWithNewline(_)
EachWithNewline(cmds) ==
    IF cmds = << >> THEN << >>
    ELSE Head(cmds) \o <<"\n">> \o EachWithNewline(Tail(cmds))

\* the number of occurrences of an atom in a text
Count(text, atom) == Cardinality({i \in 1..Len(text) : text[i] = atom})

\* what holds once the script has run to its end
C12_AtEnd ==
    pc = "done" =>
        /\ Len(exports) = 2
        /\ exports[1].fn = "write_json_file" /\ exports[2].fn = "write_python_file"
        /\ exports[1].ncalls = Len(calls) /\ exports[2].ncalls = Len(calls)
        /\ fs[exports[1].filename] = exports[1].content
        /\ fs[exports[2].filename] = exports[2].content
        /\ Count(exports[1].content, "  {") = Len(calls)
        /\ Count(exports[1].content, "  {") = Len(json_commands)
        /\ exports[2].content = Preamble \o EachWithNewline(python_commands)
        /\ Len(python_commands) = Len(calls)

\* C12: in a run of the script each writer runs at most once, once each by
\* the end, and only after the agent has stopped calling tools: no tool call
\* happens once a writer has run, so the files hold every recorded command.
C12_ExportsAfterAgent ==
    /\ [](C12_AtEnd)
    /\ [](Len(exports) <= 2)
    /\ [](\A i \in DOMAIN exports : \A j \in DOMAIN exports :
             exports[i].fn = exports[j].fn => i = j)
    /\ [][calls' # calls => pc = "stream_chat" /\ exports = << >> /\ exports' = << >>]_vars
    /\ [][exports' # exports =>
             /\ pc \in {"write_json_file", "write_python_file"}
             /\ calls' = calls
             /\ \A i \in DOMAIN exports' : exports'[i].ncalls = Len(calls)]_vars

\* the script has ended after a run in which the agent called three tools
C12_Witness ==
    /\ pc = "done"
    /\ Len(calls) = 3
    /\ Len(exports) = 2
    /\ exports[2].ncalls = 3

\* C13: both logs are append-only: a step never changes or removes an
\* element already in json_commands or python_commands; a cartesian_move
\* record keeps the position it was written with when later moves change
\* arm_state.
C13_AppendOnly ==
    [][ /\ Len(json_commands') >= Len(json_commands)
        /\ Len(python_commands') >= Len(python_commands)
        /\ \A i \in DOMAIN json_commands : json_commands'[i] = json_commands[i]
        /\ \A i \in DOMAIN python_commands : python_commands'[i] = python_commands[i]
      ]_vars

\* a move record written two calls ago, and the position has moved on since
C13_Witness ==
    /\ Len(calls) = 3 /\ Len(json_commands) = 3
    /\ IsMove(calls[1]) /\ IsMove(calls[3])
    /\ json_commands[1] = [type |-> "cartesian_move",
                           x |-> calls[1].x, y |-> calls[1].y, z |-> calls[1].z]
    /\ arm_state.z # json_commands[1].z
    /\ arm_state.z = json_commands[3].z

\* C14: the writers only read the session state: a call of one leaves
\* json_commands, python_commands and arm_state as they are and touches no
\* file but its destination, so what each writes does not depend on whether
\* the other has run before it.
C14_WritersReadOnly ==
    /\ [][exports' # exports =>
             /\ Len(exports') = Len(exports) + 1
             /\ arm_state' = arm_state
             /\ json_commands' = json_commands
             /\ python_commands' = python_commands
             /\ calls' = calls
             /\ \A f \in DOMAIN fs :
                  f # exports'[Len(exports')].filename =>
                      f \in DOMAIN fs' /\ fs'[f] = fs[f]]_vars
    /\ [](\A f \in DOMAIN fs :
             \E k \in DOMAIN exports :
                 /\ exports[k].filename = f
                 /\ \A j \in DOMAIN exports : j > k => exports[j].filename # f
                 /\ fs[f] = exports[k].content)
    /\ [](\A i \in DOMAIN exports : \A j \in DOMAIN exports :
             (exports[i].fn = exports[j].fn /\ exports[i].ncalls = exports[j].ncalls)
             => exports[i].content = exports[j].content)

\* write_python_file has run before write_json_file, after a move, and both
\* files are in place
C14_Witness ==
    /\ Len(exports) = 2
    /\ exports[1].fn = "write_python_file" /\ exports[2].fn = "write_json_file"
    /\ exports[1].ncalls >= 1
    /\ \E i \in DOMAIN calls : IsMove(calls[i])
    /\ exports[1].filename \in DOMAIN fs /\ exports[2].filename \in DOMAIN fs
    /\ fs[exports[1].filename] = exports[1].content
    /\ fs[exports[2].filename] = exports[2].content
    /\ arm_state # [x |-> 0, y |-> 0, z |-> 0]

\* the literal each kind of recorded line begins with
LinePrefixes == { "bot.arm.set_ee_cartesian_trajectory(x=",
                  "bot.arm.set_single_joint_position(joint_name='",
                  "bot.gripper." }

\* C15: strip() changes no recorded line: each one begins with bot. and
\* ends with ), whatever joint name or action text it holds, so the lines
\* of the script are the entries of python_commands as recorded.
C15_StripChangesNothing ==
    /\ \A i \in DOMAIN python_commands :
         /\ Head(python_commands[i]) \in LinePrefixes
         /\ python_commands[i][Len(python_commands[i])] \in {")", "()"}
         /\ Strip(python_commands[i]) = python_commands[i]
    /\ \A k \in DOMAIN exports :
         exports[k].fn = "write_python_file" =>
             exports[k].content =
                 Preamble \o EachWithNewline(SubSeq(python_commands, 1, exports[k].ncalls))

\* the script has been written with a command whose joint name has white
\* space at both ends
C15_Witness ==
    \E k \in DOMAIN exports : \E i \in DOMAIN calls :
        /\ exports[k].fn = "write_python_file"
        /\ i <= exports[k].ncalls
        /\ calls[i].op = "rotate_joint"
        /\ Head(calls[i].joint_name) \in Whitespace
        /\ calls[i].joint_name[Len(calls[i].joint_name)] \in Whitespace
        /\ Len(exports[k].content) > Len(Preamble)

====
